---- MODULE Spec2Model ----
(***************************************************************************)
(* Model of invokeai/frontend/install/model_install.py: the selection      *)
(* reconciliation done by addModelsForm.marshall_arguments and the         *)
(* out-of-process installation protocol between addModelsForm (controller) *)
(* and process_and_execute (worker).                                       *)
(*                                                                         *)
(* Python lists are sequences, Python list indices are shifted by one      *)
(* (the first candidate has index 1), dicts are functions.                 *)
(***************************************************************************)
EXTENDS Integers, Sequences, FiniteSets, TLC

\* ------------------------------------------------------------------ bounds
\* number of execute actions (hence of worker processes) in one behaviour
MaxRuns == 2
\* number of text chunks all workers together write
MaxChunks == 2
\* number of execute actions whose process creation fails
MaxSpawnFailures == 1

\* ------------------------------------------------------------- identifiers
Range(s) == {s[i] : i \in DOMAIN s}

\* self.starter_model_list: the catalog keys in catalog order
StarterModelList == <<"s1", "s2">>
\* the catalog entries flagged "recommended"
RecommendedModels == {"s1"}
\* every identifier a category can list, in lexicographic (sorted()) order
DiffusersUniverse == <<"d1">>
CnUniverse == <<"cn0", "org/cn1">>
LoraUniverse == <<"l1">>
TiUniverse == <<"t1">>

\* '/' in x
HasSlash(x) == x \in {"org/cn1", "org/cn2", "org/d2"}

\* one blank of a text box value
Blank == " "
\* str.split(): the whitespace-separated entries of a text box value, given
\* as the sequence of its entries and blanks
Split(value) == SelectSeq(value, LAMBDA t: t # Blank)

\* sorted(predefined_models.keys())
ModelList(predefined_models, universe) ==
    SelectSeq(universe, LAMBDA x: x \in DOMAIN predefined_models)

\* list.index(x): the first position of x
Index(values, x) ==
    CHOOSE i \in DOMAIN values :
        values[i] = x /\ \A j \in 1..(i - 1) : values[j] # x

\* [model_list.index(x) for x in model_list if predefined_models[x]]
InitiallyChecked(predefined_models, universe) ==
    LET model_list == ModelList(predefined_models, universe)
    IN  SelectSeq([i \in 1..Len(model_list) |-> i],
                  LAMBDA i: predefined_models[model_list[i]])

\* the starter boxes checked when the form is built: recommended models when
\* nothing is installed yet, and every installed starter model
StarterInitiallyChecked(existing_models) ==
    LET show_recommended == existing_models = {}
    IN  SelectSeq([i \in 1..Len(StarterModelList) |-> i],
                  LAMBDA i: \/ (show_recommended
                                   /\ StarterModelList[i] \in RecommendedModels)
                            \/ StarterModelList[i] \in existing_models)

\* ---------------------------------------------------- installed baselines
\* what addModelsForm.create reads from the model manager and the config
\* file: existing_models, and one dict identifier -> installed per category
NoModels == [x \in {} |-> TRUE]
Baselines ==
    { [existing_models |-> {},
       installed_diffusers_models |-> NoModels,
       installed_cn_models |-> [x \in {"cn0", "org/cn1"} |-> x = "org/cn1"],
       installed_lora_models |-> NoModels,
       installed_ti_models |-> [x \in {"t1"} |-> FALSE]],
      [existing_models |-> {"s2"},
       installed_diffusers_models |-> [x \in {"d1"} |-> TRUE],
       installed_cn_models |-> NoModels,
       installed_lora_models |-> [x \in {"l1"} |-> TRUE],
       installed_ti_models |-> NoModels] }

\* ------------------------------------------------- the selections record
\* UserSelections(): every list empty, no purge
InitSelections ==
    [install_models |-> <<>>, remove_models |-> <<>>,
     purge_deleted_models |-> FALSE, import_model_paths |-> <<>>,
     install_cn_models |-> <<>>, remove_cn_models |-> <<>>,
     install_lora_models |-> <<>>, remove_lora_models |-> <<>>,
     install_ti_models |-> <<>>, remove_ti_models |-> <<>>]

\* ------------------------------------------------------- the form's widgets
\* MultiSelect.value: the checked indices, in the order they were checked
Orderings(n) ==
    {s \in UNION {[1..k -> 1..n] : k \in 0..n} :
        \A i, j \in DOMAIN s : i # j => s[i] # s[j]}

\* what the user can type into the four text boxes
DiffusersTexts == {<<>>, <<"org/d2">>}
CnTexts == {<<>>, <<"plain", Blank, "org/cn1">>}
LoraTexts == {<<>>, <<"l2", Blank, "l1">>}
TiTexts == {<<>>, <<"t2">>}

\* the widget values of a freshly built form
FormDefault(b) ==
    [starter_value |-> StarterInitiallyChecked(b.existing_models),
     diffusers_value |-> InitiallyChecked(b.installed_diffusers_models, DiffusersUniverse),
     diffusers_ids |-> <<>>,
     cn_value |-> InitiallyChecked(b.installed_cn_models, CnUniverse),
     cn_ids |-> <<>>,
     lora_value |-> InitiallyChecked(b.installed_lora_models, LoraUniverse),
     lora_ids |-> <<>>,
     ti_value |-> InitiallyChecked(b.installed_ti_models, TiUniverse),
     ti_ids |-> <<>>]

NumCandidates(predefined_models) == Cardinality(DOMAIN predefined_models)

\* the widget values the user can reach by editing one tab of a freshly
\* built form
Selections(b) ==
    LET d == FormDefault(b)
    IN  {[d EXCEPT !.starter_value = v] : v \in Orderings(Len(StarterModelList))}
        \cup {[d EXCEPT !.diffusers_value = v, !.diffusers_ids = t] :
            v \in Orderings(NumCandidates(b.installed_diffusers_models)),
            t \in DiffusersTexts}
        \cup {[d EXCEPT !.cn_value = v, !.cn_ids = t] :
            v \in Orderings(NumCandidates(b.installed_cn_models)), t \in CnTexts}
        \cup {[d EXCEPT !.lora_value = v, !.lora_ids = t] :
            v \in Orderings(NumCandidates(b.installed_lora_models)), t \in LoraTexts}
        \cup {[d EXCEPT !.ti_value = v, !.ti_ids = t] :
            v \in Orderings(NumCandidates(b.installed_ti_models)), t \in TiTexts}

\* the widget values used where the selection is not what is examined: the
\* untouched form
FewSelections(b) == {FormDefault(b)}

\* ------------------------------------------------------ marshall_arguments
\* mutant of CheckedNotInstalled: every checked candidate is taken
CheckedAll(values, value, installed) ==
    [k \in 1..Len(value) |-> values[value[k]]]

\* [values[x] for x in value if not installed[values[x]]]
CheckedNotInstalled(values, value, installed) ==
    SelectSeq([k \in 1..Len(value) |-> values[value[k]]],
              LAMBDA x: ~installed[x])

\* [x for x in values if installed[x] and values.index(x) not in value]
InstalledUnchecked(values, value, installed) ==
    SelectSeq(values, LAMBDA x: installed[x] /\ Index(values, x) \notin Range(value))

\* mutant of MarshallDiffusers: checked starter models are installed again
\* even when they exist
MarshallDiffusersAgain(sel, b, w) ==
    LET starter_models == [k \in 1..Len(w.starter_value) |->
                               StarterModelList[w.starter_value[k]]]
        values == ModelList(b.installed_diffusers_models, DiffusersUniverse)
        removed_starters ==
            SelectSeq(StarterModelList,
                      LAMBDA x: x \in b.existing_models /\ x \notin Range(starter_models))
    IN  [sel EXCEPT
           !.install_models = starter_models,
           !.remove_models =
               IF Len(values) > 0
               THEN removed_starters
                    \o InstalledUnchecked(values, w.diffusers_value,
                                          b.installed_diffusers_models)
               ELSE removed_starters,
           !.import_model_paths = Split(w.diffusers_ids)]

\* starter tab and "more diffusers" tab: install_models, remove_models,
\* import_model_paths
MarshallDiffusers(sel, b, w) ==
    LET starter_models == [k \in 1..Len(w.starter_value) |->
                               StarterModelList[w.starter_value[k]]]
        values == ModelList(b.installed_diffusers_models, DiffusersUniverse)
        removed_starters ==
            SelectSeq(StarterModelList,
                      LAMBDA x: x \in b.existing_models /\ x \notin Range(starter_models))
    IN  [sel EXCEPT
           !.install_models =
               SelectSeq(starter_models, LAMBDA x: x \notin b.existing_models),
           !.remove_models =
               IF Len(values) > 0
               THEN removed_starters
                    \o InstalledUnchecked(values, w.diffusers_value,
                                          b.installed_diffusers_models)
               ELSE removed_starters,
           !.import_model_paths = Split(w.diffusers_ids)]

\* ControlNet tab: (re)computed from the checkboxes only when the tab has a
\* multi-select; the text box entries holding a '/' are appended
MarshallCn(sel, b, w) ==
    LET values == ModelList(b.installed_cn_models, CnUniverse)
        selected == Len(values) > 0
        install == IF selected
                   THEN CheckedNotInstalled(values, w.cn_value, b.installed_cn_models)
                   ELSE sel.install_cn_models
        remove == IF selected
                  THEN InstalledUnchecked(values, w.cn_value, b.installed_cn_models)
                  ELSE sel.remove_cn_models
        valid_cns == SelectSeq(Split(w.cn_ids), HasSlash)
    IN  [sel EXCEPT !.install_cn_models = install \o valid_cns,
                    !.remove_cn_models = remove]

\* mutant of MarshallLora: the '/' filter of the ControlNet block copied over
MarshallLoraFiltered(sel, b, w) ==
    LET values == ModelList(b.installed_lora_models, LoraUniverse)
        selected == Len(values) > 0
        install == IF selected
                   THEN CheckedNotInstalled(values, w.lora_value, b.installed_lora_models)
                   ELSE sel.install_lora_models
        remove == IF selected
                  THEN InstalledUnchecked(values, w.lora_value, b.installed_lora_models)
                  ELSE sel.remove_lora_models
    IN  [sel EXCEPT !.install_lora_models =
                        install \o SelectSeq(Split(w.lora_ids), HasSlash),
                    !.remove_lora_models = remove]

\* LoRA tab
MarshallLora(sel, b, w) ==
    LET values == ModelList(b.installed_lora_models, LoraUniverse)
        selected == Len(values) > 0
        install == IF selected
                   THEN CheckedNotInstalled(values, w.lora_value, b.installed_lora_models)
                   ELSE sel.install_lora_models
        remove == IF selected
                  THEN InstalledUnchecked(values, w.lora_value, b.installed_lora_models)
                  ELSE sel.remove_lora_models
    IN  [sel EXCEPT !.install_lora_models = install \o Split(w.lora_ids),
                    !.remove_lora_models = remove]

\* textual inversion tab
MarshallTi(sel, b, w) ==
    LET values == ModelList(b.installed_ti_models, TiUniverse)
        selected == Len(values) > 0
        install == IF selected
                   THEN CheckedNotInstalled(values, w.ti_value, b.installed_ti_models)
                   ELSE sel.install_ti_models
        remove == IF selected
                  THEN InstalledUnchecked(values, w.ti_value, b.installed_ti_models)
                  ELSE sel.remove_ti_models
    IN  [sel EXCEPT !.install_ti_models = install \o Split(w.ti_ids),
                    !.remove_ti_models = remove]

\* mutant of MarshallPurge: both purge checkboxes are needed
MarshallPurgeBoth(sel, starter_purge, diffusers_purge) ==
    [sel EXCEPT !.purge_deleted_models = starter_purge /\ diffusers_purge]

\* purge_deleted_models: either purge checkbox
MarshallPurge(sel, starter_purge, diffusers_purge) ==
    [sel EXCEPT !.purge_deleted_models = starter_purge \/ diffusers_purge]

\* the selections record after marshall_arguments ran on record sel, with
\* the form's installed baseline b, widget values w and purge checkboxes
MarshallArguments(sel, b, w, starter_purge, diffusers_purge) ==
    MarshallTi(
        MarshallLora(
            MarshallCn(
                MarshallDiffusers(
                    MarshallPurge(sel, starter_purge, diffusers_purge), b, w),
                b, w),
            b, w),
        b, w)

\* ------------------------------------------------------------ log and channel
\* self.subprocess_connection = None
None == 0

\* the reserved completion message
Sentinel == <<"*done*">>

\* a message is the sequence of the words and line ends of its text
NL == "\n"
ChunkTexts == {<<"a", NL>>, <<"b", Blank, "c">>, <<"*done*">>}

\* lines the controller itself puts into the log
ProcessingLine == <<"Processing...">>
CompleteLine == <<"** Action Complete **">>
EmptyLine == <<>>
Indent == "   "

\* monitor_widget.width, counted in words
WrapWidth == 1

Take(s, n) == SubSeq(s, 1, IF n < Len(s) THEN n ELSE Len(s))
Drop(s, n) == SubSeq(s, n + 1, Len(s))

RECURSIVE WrapRest(_)
WrapRest(words) ==
    IF words = <<>> THEN <<>>
    ELSE <<(<<Indent>> \o Take(words, WrapWidth))>> \o WrapRest(Drop(words, WrapWidth))

\* textwrap.wrap(data, width, subsequent_indent='   '): whitespace is
\* dropped, the words fill lines of the given width, every line after the
\* first is indented; a text without words gives no line
Wrap(data) ==
    LET words == SelectSeq(data, LAMBDA t: t # NL /\ t # Blank)
    IN  IF words = <<>> THEN <<>>
        ELSE <<Take(words, WrapWidth)>> \o WrapRest(Drop(words, WrapWidth))

\* mutant of BufferText: the new lines are put in front of the buffer
BufferTextInFront(buffer, data) == Wrap(data) \o buffer

\* monitor_widget.buffer(textwrap.wrap(data, ...))
BufferText(buffer, data) == buffer \o Wrap(data)

\* mutant of BufferComplete: no completion marker is shown
BufferCompleteSilent(buffer) == buffer

\* mutant of BufferComplete: the rebuilt form starts with an empty buffer
BufferCompleteReset(buffer) == <<CompleteLine, EmptyLine>>

\* buffer(['** Action Complete **']), then the rebuilt form takes the saved
\* lines and buffers ['']
BufferComplete(buffer) == (buffer \o <<CompleteLine>>) \o <<EmptyLine>>

\* mutant of HandleAfterRecv: the sentinel branch forgets to drop the handle
HandleKeptAfterRecv(data, handle) == handle

\* the handle the form holds after a message was read
HandleAfterRecv(data, handle) == IF data = Sentinel THEN None ELSE handle

\* mutant of BaselinesAfterError: the except branch reads the installed
\* state again
BaselinesReadAfterError(b) == Baselines

\* the installed baselines the form can hold after a read raised: the except
\* branch builds no form, the baseline stays
BaselinesAfterError(b) == {b}

\* mutant of HandleAfterError: the except branch keeps the handle
HandleKeptAfterError(handle) == handle

\* the handle the form holds after a read raised EOFError or OSError
HandleAfterError(handle) == None

\* -------------------------------------------------------------------- state
VARIABLES
    baseline,         \* installed state the current form was built from
    forms,            \* number of addModelsForm instances built so far
    starter_purge,    \* purge checkbox of the starter tab
    diffusers_purge,  \* purge checkbox of the "more diffusers" tab
    selections,       \* app.user_selections
    last_call,        \* widget values, baseline and purge boxes of the most
                      \* recent marshall_arguments call
    runs,             \* number of execute actions so far; the worker
                      \* started by the n-th one has id n
    subprocess_connection,  \* the form's handle: None or a worker id
    pc,               \* controller: "edit" (in the form's edit loop) or
                      \* "loop" (in while_waiting, at the while test)
    c,                \* while_waiting's local copy of the handle
    spin,             \* parity of the failed reads of the running poll
    pending,          \* messages in the channel when the running poll began
    consumed,         \* how many of them the running poll has read
    wpc,              \* worker: "none", "installing", "sent", "closed", "crashed"
    chan,             \* per worker: messages written and not yet read
    reader,           \* workers whose controller-side endpoint is still open
    written,          \* text chunks the latest worker has written
    nchunks,          \* text chunks written by all workers
    log,              \* lines of the monitor widget
    mark,             \* length of the log when the latest execute began
    event,            \* what the polls of the latest run produced last:
                      \* "none", "text", "completed", "failed"
    failures,         \* execute actions whose process creation failed
    attempt,          \* the latest execute action: "none", "started", "failed"
    user_cancelled,   \* app.user_cancelled
    final             \* <<selections>> handed to the process_and_execute call
                      \* that follows installApp.run(), <<>> before it

vars == <<baseline, forms, starter_purge, diffusers_purge, selections, last_call,
          runs, subprocess_connection, pc, c, spin, pending, consumed, wpc, chan,
          reader, written, nchunks, log, mark, event, failures, attempt,
          user_cancelled, final>>

formVars == <<baseline, forms, starter_purge, diffusers_purge>>
marshallVars == <<selections, last_call>>
workerVars == <<wpc, chan, reader, written, nchunks>>
controllerVars == <<runs, subprocess_connection, pc, c, spin, pending, consumed,
                    log, mark, event>>

appVars == <<failures, attempt, user_cancelled, final>>

Workers == 1..MaxRuns

\* the worker's endpoint is closed: by conn_out.close() or by process exit
EndClosed(id) == wpc[id] \in {"closed", "crashed"}

\* mutant of Poll: the channel always counts as readable
PollAlways(id) == TRUE

\* mutant of Poll: only the end of file is noticed
PollEndOnly(id) == EndClosed(id)

\* c.poll(): a message is pending, or the peer endpoint is closed (end of
\* file counts as readable)
Poll(id) == chan[id] # <<>> \/ EndClosed(id)

Init ==
    /\ baseline \in Baselines
    /\ forms = 1
    /\ starter_purge = FALSE
    /\ diffusers_purge = FALSE
    /\ selections = InitSelections
    /\ last_call = [w |-> FormDefault(baseline), b |-> baseline,
                    starter_purge |-> FALSE, diffusers_purge |-> FALSE]
    /\ runs = 0
    /\ subprocess_connection = None
    /\ pc = "edit"
    /\ c = None
    /\ spin = 0
    /\ pending = 0
    /\ consumed = 0
    /\ wpc = [id \in Workers |-> "none"]
    /\ chan = [id \in Workers |-> <<>>]
    /\ reader = {}
    /\ written = <<>>
    /\ nchunks = 0
    /\ log = <<>>
    /\ mark = 0
    /\ event = "none"
    /\ failures = 0
    /\ attempt = "none"
    /\ user_cancelled = FALSE
    /\ final = <<>>

\* ------------------------------------------------------------- user actions
\* mutant of EditStarterPurge: the box is toggled without sync_purge_buttons
EditStarterPurgeUnsynced ==
    /\ pc = "edit"
    /\ starter_purge' = ~starter_purge
    /\ UNCHANGED <<baseline, forms, diffusers_purge, marshallVars, workerVars,
                   controllerVars, appVars>>

\* a purge checkbox is toggled; when_value_edited copies it to both boxes
EditStarterPurge ==
    /\ pc = "edit"
    /\ starter_purge' = ~starter_purge
    /\ diffusers_purge' = ~starter_purge
    /\ UNCHANGED <<baseline, forms, marshallVars, workerVars, controllerVars, appVars>>

EditDiffusersPurge ==
    /\ pc = "edit"
    /\ starter_purge' = ~diffusers_purge
    /\ diffusers_purge' = ~diffusers_purge
    /\ UNCHANGED <<baseline, forms, marshallVars, workerVars, controllerVars, appVars>>

\* on_execute with the widgets holding w: 'Processing...' is buffered, the
\* selections are marshalled, a pipe and a worker are created and the
\* parent endpoint replaces whatever handle the form held (the replaced
\* endpoint loses its last reference and is closed)
OnExecute(w) ==
    /\ pc = "edit"
    /\ runs < MaxRuns
    /\ log' = log \o <<ProcessingLine>>
    /\ mark' = Len(log)
    /\ selections' = MarshallArguments(selections, baseline, w,
                                       starter_purge, diffusers_purge)
    /\ last_call' = [w |-> w, b |-> baseline, starter_purge |-> starter_purge,
                     diffusers_purge |-> diffusers_purge]
    /\ runs' = runs + 1
    /\ wpc' = [wpc EXCEPT ![runs + 1] = "installing"]
    /\ chan' = [id \in Workers |-> IF id = subprocess_connection THEN <<>> ELSE chan[id]]
    /\ reader' = (reader \ {subprocess_connection}) \cup {runs + 1}
    /\ written' = <<>>
    /\ subprocess_connection' = runs + 1
    /\ event' = "none"
    /\ attempt' = "started"
    /\ UNCHANGED <<formVars, pc, c, spin, pending, consumed, nchunks, failures,
                   user_cancelled, final>>

\* mutant of HandleAfterSpawnFailure: the handle is assigned before the
\* process is started
HandleAssignedBeforeStart(handle, parent_conn) == parent_conn

\* the handle the form holds when on_execute is left by an exception of
\* Process(...) or p.start(), parent_conn being the new pipe's endpoint
HandleAfterSpawnFailure(handle, parent_conn) == handle

\* mutant of FinalArguments: no final call when the user has cancelled
FinalArgumentsUnlessCancelled(sel, cancelled) == IF cancelled THEN <<>> ELSE <<sel>>

\* the arguments of the process_and_execute call that follows
\* installApp.run(): the selections record, user_cancelled is not looked at
FinalArguments(sel, cancelled) == <<sel>>

\* on_execute when Process(...) or p.start() raises: 'Processing...' is
\* buffered and the selections are marshalled already, the assignment of
\* the handle is not reached, both ends of the new pipe are dropped and the
\* exception leaves on_execute; the edit loop that called it either goes on
\* or ends with the exception
OnExecuteSpawnFails(w) ==
    /\ pc = "edit"
    /\ failures < MaxSpawnFailures
    /\ log' = log \o <<ProcessingLine>>
    /\ selections' = MarshallArguments(selections, baseline, w,
                                       starter_purge, diffusers_purge)
    /\ last_call' = [w |-> w, b |-> baseline, starter_purge |-> starter_purge,
                     diffusers_purge |-> diffusers_purge]
    /\ failures' = failures + 1
    /\ attempt' = "failed"
    /\ pc' \in {"edit", "raised"}
    /\ subprocess_connection' = HandleAfterSpawnFailure(subprocess_connection, runs + 1)
    /\ UNCHANGED <<formVars, workerVars, runs, c, spin, pending, consumed, mark,
                   event, user_cancelled, final>>

\* the QUIT button: on_cancel ends the edit loop, installApp.run() returns
\* and select_and_download_models calls process_and_execute without channel
OnCancel ==
    /\ pc = "edit"
    /\ user_cancelled' = TRUE
    /\ pc' = "final"
    /\ final' = FinalArguments(selections, TRUE)
    /\ UNCHANGED <<formVars, marshallVars, workerVars, runs, subprocess_connection,
                   c, spin, pending, consumed, log, mark, event, failures, attempt>>

\* KeyboardInterrupt: caught in main, which says goodbye
Interrupt ==
    /\ pc \in {"edit", "loop", "final"}
    /\ pc' = "interrupted"
    /\ UNCHANGED <<formVars, marshallVars, workerVars, appVars, runs,
                   subprocess_connection, c, spin, pending, consumed, log, mark,
                   event>>

\* the process_and_execute call after installApp.run() returns or raises
FinalExit ==
    /\ pc = "final"
    /\ pc' \in {"done", "raised"}
    /\ UNCHANGED <<formVars, marshallVars, workerVars, appVars, runs,
                   subprocess_connection, c, spin, pending, consumed, log, mark,
                   event>>

\* ------------------------------------------------------------------- worker
\* the Installer (or a log handler) writes text to the redirected streams
WorkerWrite(id, text) ==
    /\ wpc[id] = "installing"
    /\ id \in reader
    /\ nchunks < MaxChunks
    /\ chan' = [chan EXCEPT ![id] = Append(@, text)]
    /\ written' = Append(written, text)
    /\ nchunks' = nchunks + 1
    /\ UNCHANGED <<formVars, marshallVars, controllerVars, appVars, wpc, reader>>

\* install_requested_models returns: conn_out.send_bytes('*done*'); the send
\* raises when the controller's endpoint is gone
WorkerSentinel(id) ==
    /\ wpc[id] = "installing"
    /\ IF id \in reader
       THEN /\ chan' = [chan EXCEPT ![id] = Append(@, Sentinel)]
            /\ wpc' = [wpc EXCEPT ![id] = "sent"]
       ELSE /\ wpc' = [wpc EXCEPT ![id] = "crashed"]
            /\ UNCHANGED chan
    /\ UNCHANGED <<formVars, marshallVars, controllerVars, appVars, reader, written,
                   nchunks>>

\* conn_out.close()
WorkerClose(id) ==
    /\ wpc[id] = "sent"
    /\ wpc' = [wpc EXCEPT ![id] = "closed"]
    /\ UNCHANGED <<formVars, marshallVars, controllerVars, appVars, chan, reader,
                   written, nchunks>>

\* install_requested_models raises: nothing catches it, the process ends and
\* its endpoint is closed with it
WorkerRaise(id) ==
    /\ wpc[id] = "installing"
    /\ wpc' = [wpc EXCEPT ![id] = "crashed"]
    /\ UNCHANGED <<formVars, marshallVars, controllerVars, appVars, chan, reader,
                   written, nchunks>>

\* --------------------------------------------------------------- controller
\* while_waiting is called: without a handle it returns at once, with one
\* it reaches the while test
WhileWaiting ==
    /\ pc = "edit"
    /\ IF subprocess_connection = None
       THEN UNCHANGED <<pc, c, pending>>
       ELSE /\ pc' = "loop"
            /\ c' = subprocess_connection
            /\ pending' = Len(chan[subprocess_connection])
    /\ spin' = 0
    /\ consumed' = 0
    /\ UNCHANGED <<formVars, marshallVars, workerVars, appVars, runs,
                   subprocess_connection, log, mark, event>>

\* one evaluation of `while c.poll()` and of the loop body
PollLoop ==
    /\ pc = "loop"
    /\ IF ~Poll(c)
       THEN \* nothing pending: while_waiting returns
            /\ pc' = "edit"
            /\ c' = None
            /\ pending' = 0
            /\ consumed' = 0
            /\ UNCHANGED <<formVars, workerVars, subprocess_connection, spin, log, event>>
       ELSE IF chan[c] # <<>>
       THEN LET data == Head(chan[c])
            IN  /\ subprocess_connection' = HandleAfterRecv(data, subprocess_connection)
                /\ IF data = Sentinel
                   THEN \* completion: the form is rebuilt, break
                        /\ log' = BufferComplete(log)
                        /\ baseline' \in Baselines
                        /\ forms' = forms + 1
                        /\ starter_purge' = FALSE
                        /\ diffusers_purge' = FALSE
                        /\ pc' = "edit"
                        /\ c' = None
                        /\ pending' = 0
                        /\ consumed' = 0
                        /\ chan' = [chan EXCEPT ![c] = <<>>]
                        /\ reader' = reader \ {c}
                        /\ event' = "completed"
                   ELSE /\ log' = BufferText(log, data)
                        /\ chan' = [chan EXCEPT ![c] = Tail(@)]
                        /\ event' = "text"
                        /\ consumed' = IF consumed < pending THEN consumed + 1
                                                               ELSE consumed
                        /\ UNCHANGED <<formVars, pc, c, pending, reader>>
                /\ UNCHANGED <<spin, wpc, written, nchunks>>
       ELSE \* recv_bytes raises EOFError: the handle is dropped, the loop goes on
            /\ subprocess_connection' = HandleAfterError(subprocess_connection)
            /\ event' = "failed"
            /\ spin' = 1 - spin
            /\ pending' = 0
            /\ consumed' = 0
            /\ baseline' \in BaselinesAfterError(baseline)
            /\ UNCHANGED <<forms, starter_purge, diffusers_purge, workerVars, pc, c, log>>
    /\ UNCHANGED <<marshallVars, appVars, runs, mark>>

\* ------------------------------------------------------------ specifications
\* the installation protocol, with few different selections
Next ==
    \/ EditStarterPurge
    \/ EditDiffusersPurge
    \/ \E w \in FewSelections(baseline) : OnExecute(w)
    \/ \E id \in Workers, text \in ChunkTexts : WorkerWrite(id, text)
    \/ \E id \in Workers : WorkerSentinel(id)
    \/ \E id \in Workers : WorkerClose(id)
    \/ \E id \in Workers : WorkerRaise(id)
    \/ WhileWaiting
    \/ PollLoop

Spec == Init /\ [][Next]_vars

\* the same, with the controller's thread never starved inside while_waiting
FairSpec == Spec /\ WF_vars(PollLoop)

\* the same, with the form's while_waiting also called again and again (the
\* keypress timeout of the edit loop)
FairTickSpec == Spec /\ WF_vars(PollLoop) /\ WF_vars(WhileWaiting)

\* the reconciliation, with every selection and an Installer that writes no text
NextReconcile ==
    \/ EditStarterPurge
    \/ EditDiffusersPurge
    \/ \E w \in Selections(baseline) : OnExecute(w)
    \/ \E id \in Workers : WorkerSentinel(id)
    \/ \E id \in Workers : WorkerClose(id)
    \/ \E id \in Workers : WorkerRaise(id)
    \/ WhileWaiting
    \/ PollLoop

SpecReconcile == Init /\ [][NextReconcile]_vars

\* the application from start to exit, with an Installer that writes no text
NextApp ==
    \/ \E w \in FewSelections(baseline) : OnExecute(w)
    \/ \E w \in FewSelections(baseline) : OnExecuteSpawnFails(w)
    \/ \E id \in Workers : WorkerSentinel(id)
    \/ \E id \in Workers : WorkerClose(id)
    \/ \E id \in Workers : WorkerRaise(id)
    \/ WhileWaiting
    \/ PollLoop
    \/ OnCancel
    \/ Interrupt
    \/ FinalExit

SpecApp == Init /\ [][NextApp]_vars

\* ------------------------------------------------------------------- claims
RECURSIVE WrapAll(_)
\* the lines of a sequence of text chunks
WrapAll(chunks) ==
    IF chunks = <<>> THEN <<>> ELSE Wrap(Head(chunks)) \o WrapAll(Tail(chunks))

\* the lines the log received since the latest execute action began
Seg == SubSeq(log, mark + 1, Len(log))

\* the text chunks of the latest run that are written and not yet read
PendingTexts == SelectSeq(chan[runs], LAMBDA m: m # Sentinel)

\* worker processes that are running
Live == {id \in Workers : wpc[id] \in {"installing", "sent"}}

\* C1: a worker that has ended has written the sentinel and then closed its
\* endpoint with conn_out.close(), once, whether the Installer returned or
\* raised.
C1_SentinelOnEveryExit ==
    \A id \in Workers : EndClosed(id) => wpc[id] = "closed"

\* C2: in a run whose text chunks are all different from the sentinel, the
\* log holds, after 'Processing...', the lines of the chunks read so far in
\* the order written (read and pending chunks together are the written ones);
\* once the sentinel is read it holds the lines of every written chunk, then
\* one completion marker (and the empty line of the rebuilt form), and it
\* stays so through every later poll.
C2_OrderedDelivery ==
    (runs >= 1 /\ Sentinel \notin Range(written)) =>
        /\ event \in {"none", "text"} =>
              Seg \o WrapAll(PendingTexts) = <<ProcessingLine>> \o WrapAll(written)
        /\ event = "completed" =>
              Seg = (<<ProcessingLine>> \o WrapAll(written))
                        \o <<CompleteLine, EmptyLine>>

\* C2 witness: two different chunks and the sentinel were delivered
C2_Witness ==
    /\ event = "completed"
    /\ Len(written) = 2
    /\ written[1] # written[2]
    /\ Sentinel \notin Range(written)
    /\ Len(Seg) = 6

\* C3: an execute action starts a worker only when the form holds no handle,
\* and no two workers of the controller run at the same time.
C3_OneWorkerAtATime ==
    /\ [](Cardinality(Live) <= 1)
    /\ [][runs' # runs => subprocess_connection = None]_vars

\* C4: once a read has failed before the sentinel arrived, the handle is
\* dropped, the log holds 'Processing...' and the lines of every chunk the
\* worker wrote, without completion marker or error line, and no later step
\* changes the log or rebuilds the form.
C4_SilentDisconnect ==
    /\ [](event = "failed" =>
            /\ subprocess_connection = None
            /\ Seg = <<ProcessingLine>> \o WrapAll(written))
    /\ [][event' = "failed" =>
            /\ log' = log
            /\ forms' = forms
            /\ baseline' = baseline]_vars

\* C4 witness: the read failed after text chunks had been written, and the
\* loop has gone round again since
C4_Witness ==
    /\ event = "failed"
    /\ Len(written) = 2
    /\ spin = 0

\* C5: every call of while_waiting returns to the edit loop.
C5_PollTerminates == [](pc = "loop" => <>(pc = "edit"))

\* C6: once the sentinel is read the form holds no handle and the controller
\* is back in its edit loop, and until the next execute action no step (no
\* poll in particular) changes the log or the handle.
C6_IdleAfterSentinel ==
    /\ [](event = "completed" => subprocess_connection = None /\ pc = "edit")
    /\ [][(event = "completed" /\ runs' = runs) =>
            /\ log' = log
            /\ subprocess_connection' = None
            /\ event' = "completed"]_vars

\* C6 witness: a run was completed by its sentinel and the worker has ended
C6_Witness ==
    /\ event = "completed"
    /\ wpc[runs] = "closed"
    /\ subprocess_connection = None

\* the install and remove lists of the four plans
Disjoint(install, remove) == Range(install) \cap Range(remove) = {}

\* C7: after marshall_arguments no identifier is in both the install list
\* and the remove list of a category.
C7_InstallRemoveDisjoint ==
    runs >= 1 =>
        /\ Disjoint(selections.install_models, selections.remove_models)
        /\ Disjoint(selections.install_cn_models, selections.remove_cn_models)
        /\ Disjoint(selections.install_lora_models, selections.remove_lora_models)
        /\ Disjoint(selections.install_ti_models, selections.remove_ti_models)

\* the identifiers checked in a multi-select
Checked(values, value) == {values[i] : i \in Range(value)}

\* the identifiers a dict flags as installed
Installed(predefined_models) ==
    {x \in DOMAIN predefined_models : predefined_models[x]}

\* the checked candidates are exactly the installed ones, every text box is empty
ExactSelection(call) ==
    /\ Checked(StarterModelList, call.w.starter_value)
           = call.b.existing_models \cap Range(StarterModelList)
    /\ Checked(ModelList(call.b.installed_diffusers_models, DiffusersUniverse),
               call.w.diffusers_value) = Installed(call.b.installed_diffusers_models)
    /\ Checked(ModelList(call.b.installed_cn_models, CnUniverse), call.w.cn_value)
           = Installed(call.b.installed_cn_models)
    /\ Checked(ModelList(call.b.installed_lora_models, LoraUniverse), call.w.lora_value)
           = Installed(call.b.installed_lora_models)
    /\ Checked(ModelList(call.b.installed_ti_models, TiUniverse), call.w.ti_value)
           = Installed(call.b.installed_ti_models)
    /\ Split(call.w.diffusers_ids) = <<>>
    /\ Split(call.w.cn_ids) = <<>>
    /\ Split(call.w.lora_ids) = <<>>
    /\ Split(call.w.ti_ids) = <<>>

\* C8: marshall_arguments on a form whose checked candidates are exactly the
\* installed ones and whose text boxes are empty leaves every install and
\* remove list empty.
C8_ExactSelectionIsNoop ==
    (runs >= 1 /\ ExactSelection(last_call)) =>
        /\ selections.install_models = <<>>
        /\ selections.remove_models = <<>>
        /\ selections.install_cn_models = <<>>
        /\ selections.remove_cn_models = <<>>
        /\ selections.install_lora_models = <<>>
        /\ selections.remove_lora_models = <<>>
        /\ selections.install_ti_models = <<>>
        /\ selections.remove_ti_models = <<>>

\* C9: a marshall_arguments call whose installed maps, widget values and
\* purge boxes equal those of the call before it yields the same ordered
\* lists as that call.
C9_Deterministic ==
    [][(runs >= 1 /\ runs' = runs + 1 /\ last_call' = last_call) =>
           selections' = selections]_vars

\* C10 as stated: every entry of a text box is in the install list of the
\* box's category.
C10_FreeTextInInstallList ==
    runs >= 1 =>
        /\ Range(Split(last_call.w.diffusers_ids)) \subseteq Range(selections.install_models)
        /\ Range(Split(last_call.w.cn_ids)) \subseteq Range(selections.install_cn_models)
        /\ Range(Split(last_call.w.lora_ids)) \subseteq Range(selections.install_lora_models)
        /\ Range(Split(last_call.w.ti_ids)) \subseteq Range(selections.install_ti_models)

\* s ends with t
EndsWith(s, t) ==
    Len(t) <= Len(s) /\ SubSeq(s, Len(s) - Len(t) + 1, Len(s)) = t

\* C10 amended: the LoRA and textual inversion entries end the install list of
\* their category, verbatim and in order; of the ControlNet entries those
\* holding a '/' end install_cn_models and another one is in it only if it
\* names a candidate; the diffusers entries are import_model_paths, and
\* install_models holds starter models only.
C10_FreeTextRouted ==
    runs >= 1 =>
        /\ EndsWith(selections.install_lora_models, Split(last_call.w.lora_ids))
        /\ EndsWith(selections.install_ti_models, Split(last_call.w.ti_ids))
        /\ EndsWith(selections.install_cn_models,
                    SelectSeq(Split(last_call.w.cn_ids), HasSlash))
        /\ \A x \in Range(Split(last_call.w.cn_ids)) :
              (~HasSlash(x) /\ x \notin Range(CnUniverse))
                  => x \notin Range(selections.install_cn_models)
        /\ selections.import_model_paths = Split(last_call.w.diffusers_ids)
        /\ Range(selections.install_models) \subseteq Range(StarterModelList)

\* C10 witness: a ControlNet box with an entry that is filtered out and one
\* that is appended
C10_Witness ==
    /\ runs >= 1
    /\ \E x \in Range(Split(last_call.w.cn_ids)) : ~HasSlash(x)
    /\ selections.install_cn_models # <<>>

\* C11 as stated: the step that reads the sentinel and rebuilds the form
\* leaves the log as it was plus one completion marker line.
C11_MarkerOnly ==
    [][forms' # forms => log' = log \o <<CompleteLine>>]_vars

\* C11 amended: the step that reads the sentinel and rebuilds the form leaves
\* every earlier line in place and in order and appends the completion
\* marker followed by one empty line.
C11_ScrollbackKept ==
    [][forms' # forms => log' = log \o <<CompleteLine, EmptyLine>>]_vars

\* C11 witness: a form was rebuilt with text lines in the log before the marker
C11_Witness ==
    /\ forms = 2
    /\ event = "completed"
    /\ Len(written) = 2
    /\ Sentinel \notin Range(written)
    /\ Len(log) = 6
    /\ log[5] = CompleteLine

\* C12: the purge flag marshall_arguments stores is the disjunction of the
\* two purge checkboxes: for the boxes of the call that was made, and for
\* every pair of box values given to the purge step.
C12_PurgeIsOr ==
    /\ runs >= 1 =>
          selections.purge_deleted_models
              = (last_call.starter_purge \/ last_call.diffusers_purge)
    /\ \A a, b \in BOOLEAN :
          MarshallPurge(selections, a, b).purge_deleted_models = (a \/ b)

\* C12 witness: a request was built with a purge box checked
C12_Witness ==
    /\ runs >= 1
    /\ last_call.starter_purge
    /\ selections.purge_deleted_models

\* C13: marshall_arguments never puts a starter model into the remove list.
C13_StarterNeverRemoved ==
    runs >= 1 => Range(selections.remove_models) \cap Range(StarterModelList) = {}

\* C14: after marshall_arguments the install list holds exactly the starter
\* models that are checked and are not among the existing models.
C14_StarterInstallIff ==
    runs >= 1 =>
        Range(selections.install_models)
            = Checked(StarterModelList, last_call.w.starter_value)
                  \ last_call.b.existing_models

\* C14 witness: an existing starter model and a new one are both checked
C14_Witness ==
    /\ runs >= 1
    /\ last_call.b.existing_models = {"s2"}
    /\ Checked(StarterModelList, last_call.w.starter_value) = {"s1", "s2"}
    /\ selections.install_models = <<"s1">>

\* a tab with candidates: its remove list holds exactly the installed and
\* unchecked candidates, and its install list is the not installed and
\* checked candidates followed by the appended text box entries
PlanOfCandidates(install, remove, predefined_models, universe, value, appended) ==
    LET values == ModelList(predefined_models, universe)
        checked == Checked(values, value)
        fromBoxes == SubSeq(install, 1, Len(install) - Len(appended))
    IN  Len(values) > 0 =>
            /\ Range(remove) = Installed(predefined_models) \ checked
            /\ EndsWith(install, appended)
            /\ Range(fromBoxes) = checked \ Installed(predefined_models)

\* C15: for the ControlNet, LoRA and textual inversion tabs with candidates
\* the plan is the one of PlanOfCandidates; for the "more diffusers" tab with
\* candidates the remove list holds, of its candidates, exactly the installed
\* and unchecked ones and the install list holds, of its candidates, exactly
\* the not installed and checked ones.
C15_CandidatePlan ==
    runs >= 1 =>
        LET b == last_call.b
            w == last_call.w
            dvalues == ModelList(b.installed_diffusers_models, DiffusersUniverse)
            dchecked == Checked(dvalues, w.diffusers_value)
        IN  /\ PlanOfCandidates(selections.install_cn_models, selections.remove_cn_models,
                                b.installed_cn_models, CnUniverse, w.cn_value,
                                SelectSeq(Split(w.cn_ids), HasSlash))
            /\ PlanOfCandidates(selections.install_lora_models, selections.remove_lora_models,
                                b.installed_lora_models, LoraUniverse, w.lora_value,
                                Split(w.lora_ids))
            /\ PlanOfCandidates(selections.install_ti_models, selections.remove_ti_models,
                                b.installed_ti_models, TiUniverse, w.ti_value,
                                Split(w.ti_ids))
            /\ Len(dvalues) > 0 =>
                  /\ Range(selections.remove_models) \cap Range(dvalues)
                         = Installed(b.installed_diffusers_models) \ dchecked
                  /\ Range(selections.install_models) \cap Range(dvalues)
                         = dchecked \ Installed(b.installed_diffusers_models)

\* C15 witness: a ControlNet plan that installs a newly checked candidate
\* and removes an unchecked installed one, with a text box entry appended
C15_Witness ==
    /\ runs >= 1
    /\ selections.install_cn_models = <<"cn0", "org/cn1">>
    /\ selections.remove_cn_models = <<"org/cn1">>

\* a tab without candidates: nothing to remove, the text box entries to install
PlanOfTextOnly(install, remove, predefined_models, entries) ==
    NumCandidates(predefined_models) = 0 => (remove = <<>> /\ install = entries)

\* C16: for a tab without candidates marshall_arguments leaves an empty
\* remove list and an install list that holds exactly the entries of the
\* tab's text box (of the ControlNet box: the entries holding a '/').
C16_TextOnlyPlan ==
    runs >= 1 =>
        /\ PlanOfTextOnly(selections.install_cn_models, selections.remove_cn_models,
                          last_call.b.installed_cn_models,
                          SelectSeq(Split(last_call.w.cn_ids), HasSlash))
        /\ PlanOfTextOnly(selections.install_lora_models, selections.remove_lora_models,
                          last_call.b.installed_lora_models, Split(last_call.w.lora_ids))
        /\ PlanOfTextOnly(selections.install_ti_models, selections.remove_ti_models,
                          last_call.b.installed_ti_models, Split(last_call.w.ti_ids))

\* C17: when while_waiting returns with the form still holding its handle,
\* its last readiness check found the channel empty and every message that
\* was pending when the poll began has been read by it.
C17_PollDrains ==
    [][(pc = "loop" /\ pc' = "edit" /\ subprocess_connection' # None) =>
           /\ chan[c] = <<>>
           /\ ~Poll(c)
           /\ consumed = pending]_vars

\* C17 witness: a poll that began with two messages pending has read both
\* and is about to return with the handle held
C17_Witness ==
    /\ pc = "loop"
    /\ subprocess_connection = c
    /\ pending = 2
    /\ consumed = 2
    /\ ~Poll(c)

\* the latest worker has ended without sentinel, and none of its text chunks
\* reads '*done*'
ExitedWithoutSentinel ==
    /\ runs >= 1
    /\ wpc[runs] = "crashed"
    /\ Sentinel \notin Range(written)

\* C18 as stated: after the latest worker has ended without sentinel the form
\* keeps its handle for ever and shows no completion.
C18_HandleNeverDiscarded ==
    ExitedWithoutSentinel => (subprocess_connection = runs /\ event # "completed")

\* C18 amended: after the latest worker has ended without sentinel no
\* completion is shown and the form is not rebuilt, but the handle is
\* dropped: the poll that finds the channel empty drops it, changes nothing
\* else that is shown, and stays in its loop.
C18_HandleDroppedNoCompletion ==
    /\ [](ExitedWithoutSentinel => event # "completed")
    /\ [][(ExitedWithoutSentinel /\ pc = "loop" /\ chan[c] = <<>> /\ PollLoop) =>
             /\ subprocess_connection' = None
             /\ pc' = "loop"
             /\ log' = log
             /\ forms' = forms]_vars

\* C18 witness: the Installer raised after writing text, the text was shown
\* and the handle is gone
C18_Witness ==
    /\ ExitedWithoutSentinel
    /\ written # <<>>
    /\ chan[runs] = <<>>
    /\ pc = "loop"
    /\ subprocess_connection = None
    /\ event = "failed"

\* the chunks written before the first chunk that reads '*done*'
BeforeDone(chunks) == SubSeq(chunks, 1, Index(chunks, Sentinel) - 1)

\* s is an initial part of t
IsPrefix(s, t) == Len(s) <= Len(t) /\ SubSeq(t, 1, Len(s)) = s

\* C19: when a text chunk of the latest run reads '*done*', the log never
\* shows a chunk written after it, no read fails, and once the controller
\* has read it the handle is dropped, the form rebuilt and the log holds
\* the lines of the chunks before it followed by the completion marker,
\* whatever the worker does afterwards.
C19_TextReadAsSentinel ==
    (runs >= 1 /\ Sentinel \in Range(written)) =>
        /\ event # "failed"
        /\ event \in {"none", "text"} =>
              IsPrefix(Seg, <<ProcessingLine>> \o WrapAll(BeforeDone(written)))
        /\ event = "completed" =>
              /\ subprocess_connection = None
              /\ forms > 1
              /\ Seg = (<<ProcessingLine>> \o WrapAll(BeforeDone(written)))
                            \o <<CompleteLine, EmptyLine>>

\* C19 witness: the Installer wrote '*done*' and then more text, the
\* controller completed the run while the Installer is still running
C19_Witness ==
    /\ runs >= 1
    /\ Len(written) = 2
    /\ written[1] = Sentinel
    /\ written[2] # Sentinel
    /\ wpc[runs] = "installing"
    /\ event = "completed"
    /\ subprocess_connection = None

\* C20: when the sentinel of the run whose handle the form holds is in the
\* channel, then the controller reads it, shows the completion marker and
\* is back in the edit loop without handle, unless an execute action comes
\* first.
C20_SentinelConsumed ==
    \A n \in Workers :
        (runs = n /\ subprocess_connection = n /\ Sentinel \in Range(chan[n]))
            ~> \/ runs # n
               \/ /\ event = "completed"
                  /\ subprocess_connection = None
                  /\ pc = "edit"
                  /\ EndsWith(log, <<CompleteLine, EmptyLine>>)

\* C20 witness: the worker has written the sentinel and closed, the
\* controller has shown the completion
C20_Witness ==
    /\ runs = MaxRuns
    /\ wpc[runs] = "closed"
    /\ Sentinel \notin Range(written)
    /\ event = "completed"
    /\ pc = "edit"
    /\ EndsWith(log, <<CompleteLine, EmptyLine>>)

\* the worker of the run whose handle the form holds is running and nothing
\* is in the channel
SilentWorker ==
    /\ runs >= 1
    /\ subprocess_connection = runs
    /\ wpc[runs] = "installing"
    /\ chan[runs] = <<>>

\* C21: while the worker is running with nothing in the channel, no step
\* other than an execute action changes the log, the handle, the form or
\* what the polls have produced, and a poll that is under way returns.
C21_SilentWorkerNoEvent ==
    [][(SilentWorker /\ runs' = runs /\ failures' = failures) =>
           /\ log' = log
           /\ subprocess_connection' = subprocess_connection
           /\ forms' = forms
           /\ baseline' = baseline
           /\ event' = event
           /\ (pc = "loop" /\ pc' # pc) => pc' = "edit"]_vars

\* C21 witness: a poll is at its readiness test, the worker is running and
\* has written nothing so far
C21_Witness ==
    /\ SilentWorker
    /\ pc = "loop"
    /\ c = subprocess_connection
    /\ written = <<>>
    /\ event = "none"

\* C22: an execute action whose process creation fails starts no worker and
\* leaves the handle as it was (none, when no run was under way); the
\* exception leaves on_execute; and after a failed attempt without handle
\* no step before the next execute action sets a handle, enters the poll
\* loop or changes the log or the form.
C22_SpawnFailureLeavesIdle ==
    /\ [][failures' # failures =>
             /\ subprocess_connection' = subprocess_connection
             /\ runs' = runs
             /\ wpc' = wpc
             /\ reader' = reader
             /\ chan' = chan
             /\ attempt' = "failed"]_vars
    /\ [][(attempt = "failed" /\ subprocess_connection = None
              /\ runs' = runs /\ failures' = failures) =>
             /\ subprocess_connection' = None
             /\ pc = "edit" => pc' # "loop"
             /\ log' = log
             /\ forms' = forms
             /\ event' = event]_vars

\* C22 witness: process creation failed from the idle state and the edit
\* loop went on
C22_Witness ==
    /\ attempt = "failed"
    /\ runs = 0
    /\ subprocess_connection = None
    /\ pc = "edit"
    /\ log = <<ProcessingLine>>

\* the application has left its edit loop for good
Exited == pc \notin {"edit", "loop"}

\* C23 as stated: whichever way the application has exited, the final
\* process_and_execute call was made with the selections record.
C23_FinalRunOnEveryExit ==
    Exited => final = <<selections>>

\* C23 amended: the final process_and_execute call is made exactly when
\* installApp.run() returns, which the QUIT button brings about: it gets the
\* selections record as marshall_arguments last wrote it, whatever the
\* workers started earlier are doing; when the application ends with an
\* exception instead (KeyboardInterrupt, a failed process creation) the
\* call is not made.
C23_FinalRunAfterQuit ==
    /\ [](user_cancelled <=> final # <<>>)
    /\ [](final # <<>> => (Exited /\ final = <<selections>>))
    /\ []((Exited /\ ~user_cancelled) => pc \in {"interrupted", "raised"})
    /\ [][final' # final => (pc = "edit" /\ pc' = "final" /\ final' = <<selections>>)]_vars

\* C23 witness: QUIT was pressed while the worker of the executed request
\* was still running, and that request is handed to the Installer again
C23_Witness ==
    /\ pc = "final"
    /\ runs >= 1
    /\ attempt = "started"
    /\ wpc[runs] = "installing"
    /\ final = <<selections>>
    /\ selections.install_models # <<>>

\* C24: the installed baseline of the form changes only in the step that
\* rebuilds the form after the sentinel; execute actions, text reads and
\* failed reads leave it, and every execute action reconciles against the
\* baseline the form holds.
C24_BaselineOnlyAtRebuild ==
    /\ [][baseline' # baseline => (forms' = forms + 1 /\ event' = "completed")]_vars
    /\ [][forms' = forms => baseline' = baseline]_vars
    /\ [][runs' = runs + 1 => (last_call'.b = baseline /\ baseline' = baseline)]_vars

\* C24 witness: a run ended by disconnect, no form was rebuilt, and the next
\* execute action was reconciled against the baseline of the first form
C24_Witness ==
    /\ runs = 2
    /\ wpc[1] = "crashed"
    /\ forms = 1
    /\ last_call.b = baseline
    /\ subprocess_connection = 2

\* C25: the two purge checkboxes always hold the same value, and the purge
\* flag marshall_arguments stored is the value both held at the call.
C25_PurgeBoxesInSync ==
    /\ starter_purge = diffusers_purge
    /\ runs >= 1 =>
          /\ last_call.starter_purge = last_call.diffusers_purge
          /\ selections.purge_deleted_models = last_call.diffusers_purge

\* C25 witness: the box of the "more diffusers" tab was checked, and after
\* an execute action with the purge flag set the boxes were edited again
C25_Witness ==
    /\ runs >= 1
    /\ last_call.diffusers_purge
    /\ selections.purge_deleted_models
    /\ ~starter_purge
    /\ ~diffusers_purge
    /\ forms = 1

====
